---- MODULE Spec2Model ----
(***************************************************************************)
(* Model of Data/functions.py: the Medicare Advantage readers, the monthly *)
(* loaders and the premium reconciler mapd_clean_merge.                    *)
(*                                                                         *)
(* A table (pandas DataFrame) is a sequence of rows, a row is a record of  *)
(* cells.  A cell is a tagged value: a string (a sequence of characters),  *)
(* a float64 (counted in hundredths), an Int64, a boolean, or NA.          *)
(***************************************************************************)
EXTENDS Integers, Sequences, FiniteSets, TLC

VARIABLES pc,             \* position of the calling script
          ma_data,        \* caller's Part-C table (argument ma_data)
          mapd_data,      \* caller's Part-C/Part-D table (argument mapd_data)
          locals,         \* mapd_clean_merge's local tables at its return
          plan_premiums,  \* the table mapd_clean_merge returned
          again,          \* the table returned when it is run on its own output
          contract_csv,   \* lines of CPSC_Contract_Info_{y}_{m}.csv
          enroll_csv,     \* lines of CPSC_Enrollment_Info_{y}_{m}.csv
          merged,         \* the table load_month returned
          sa_csv,         \* lines of MA_Cnty_SA_{y}_{m}.csv
          service_area,   \* the table load_month_sa returned
          m,              \* the month the caller passes, a string
          y               \* the year the caller passes

mergeVars == <<ma_data, mapd_data, locals, plan_premiums, again>>

loadVars == <<contract_csv, enroll_csv, merged>>

saVars == <<sa_csv, service_area>>

vars == <<pc, mergeVars, loadVars, saVars, m, y>>

(***************************************************************************)
(* Bounds of the model.                                                    *)
(***************************************************************************)
\* rows of ma_data and mapd_data together
MaxRows == 3
\* data lines of the contract file and of the enrollment file together
MaxLines == 4
\* data lines of the service-area file
MaxSaLines == 2

(***************************************************************************)
(* Cells.                                                                  *)
(***************************************************************************)
NA == [t |-> "na", s |-> <<>>, n |-> 0]
Str(s) == [t |-> "str", s |-> s, n |-> 0]
\* float64, n in hundredths
Num(n) == [t |-> "num", s |-> <<>>, n |-> n]
Int64(n) == [t |-> "int", s |-> <<>>, n |-> n]
Bool(b) == [t |-> "bool", s |-> <<>>, n |-> IF b THEN 1 ELSE 0]
\* what astype("Int64") does to a float that is no whole number: TypeError
Raise == [t |-> "raise", s |-> <<>>, n |-> 0]

IsNA(c) == c.t = "na"

(***************************************************************************)
(* Characters, in code-point order, and the str methods the code uses.     *)
(***************************************************************************)
Alphabet == <<" ", "$", "*", ",", ".", "0", "1", "2", "3", "4", "5", "6", "7",
              "8", "9", "A", "E", "F", "H", "L", "R", "S", "T", "U", "X", "Y",
              "a", "e", "f", "h", "l", "r", "s", "t", "u", "x", "y">>

\* the rank of each character
Ranks == [ch \in {Alphabet[i] : i \in 1..Len(Alphabet)} |->
            CHOOSE i \in 1..Len(Alphabet) : Alphabet[i] = ch]

Ord(ch) == Ranks[ch]

DigitChars == <<"0", "1", "2", "3", "4", "5", "6", "7", "8", "9">>

DigitSet == {DigitChars[i] : i \in 1..10}

IsDigit(ch) == ch \in DigitSet

DigitVals == [ch \in DigitSet |-> (CHOOSE i \in 1..10 : DigitChars[i] = ch) - 1]

DigitVal(ch) == DigitVals[ch]

UpperChar(ch) ==
    CASE ch = "a" -> "A" [] ch = "e" -> "E" [] ch = "f" -> "F"
      [] ch = "h" -> "H" [] ch = "l" -> "L" [] ch = "r" -> "R"
      [] ch = "s" -> "S" [] ch = "t" -> "T" [] ch = "u" -> "U"
      [] ch = "x" -> "X" [] ch = "y" -> "Y" [] OTHER -> ch

\* s < t, lexicographically by code point
RECURSIVE SeqLess(_, _)
SeqLess(s, t) ==
    IF t = <<>> THEN FALSE
    ELSE IF s = <<>> THEN TRUE
    ELSE IF Head(s) = Head(t) THEN SeqLess(Tail(s), Tail(t))
    ELSE Ord(Head(s)) < Ord(Head(t))

RECURSIVE LStrip(_)
LStrip(s) == IF s # <<>> /\ Head(s) = " " THEN LStrip(Tail(s)) ELSE s

RECURSIVE RStrip(_)
RStrip(s) ==
    IF s # <<>> /\ s[Len(s)] = " " THEN RStrip(SubSeq(s, 1, Len(s) - 1)) ELSE s

\* Series.str.strip()
StrStrip(c) == IF c.t = "str" THEN Str(RStrip(LStrip(c.s))) ELSE c

\* Series.str.upper()
StrUpper(c) ==
    IF c.t = "str" THEN Str([i \in 1..Len(c.s) |-> UpperChar(c.s[i])]) ELSE c

\* Series.str.replace(r"[\$,]", "", regex=True)
StrReplaceCurrency(c) ==
    IF c.t = "str"
    THEN Str(SelectSeq(c.s, LAMBDA ch : ch # "$" /\ ch # ","))
    ELSE c

RECURSIVE Digits(_)
Digits(n) ==
    IF n < 10 THEN <<DigitChars[n + 1]>>
    ELSE Digits(n \div 10) \o <<DigitChars[(n % 10) + 1]>>

\* str of a float: the shortest form that reads back, always with a fraction
FormatFloat(n) ==
    Digits(n \div 100) \o <<".">> \o
       (IF n % 100 = 0 THEN <<"0">>
        ELSE IF n % 10 = 0 THEN <<DigitChars[((n % 100) \div 10) + 1]>>
        ELSE <<DigitChars[((n % 100) \div 10) + 1], DigitChars[(n % 10) + 1]>>)

\* Series.astype("string")
AsString(c) ==
    CASE c.t = "num" -> Str(FormatFloat(c.n))
      [] c.t = "int" -> Str(Digits(c.n))
      [] OTHER -> c

RECURSIVE DigitsVal(_)
DigitsVal(s) ==
    IF s = <<>> THEN 0
    ELSE 10 * DigitsVal(SubSeq(s, 1, Len(s) - 1)) + DigitVal(s[Len(s)])

AllDigits(s) == \A i \in 1..Len(s) : IsDigit(s[i])

DotAt(s) == IF \E i \in 1..Len(s) : s[i] = "."
            THEN CHOOSE i \in 1..Len(s) : s[i] = "."
            ELSE 0

\* The decimal numbers of the model: digits, or digits "." digits with at
\* most two fraction digits (a float is kept in hundredths).
IsDecimal(s) ==
    LET d == DotAt(s) IN
    IF d = 0 THEN s # <<>> /\ AllDigits(s)
    ELSE /\ AllDigits(SubSeq(s, 1, d - 1))
         /\ AllDigits(SubSeq(s, d + 1, Len(s)))
         /\ Len(s) > 1
         /\ Len(s) - d <= 2

DecimalVal(s) ==
    LET d == DotAt(s) IN
    IF d = 0 THEN 100 * DigitsVal(s)
    ELSE LET frac == SubSeq(s, d + 1, Len(s)) IN
         100 * DigitsVal(SubSeq(s, 1, d - 1))
           + (IF Len(frac) = 1 THEN 10 * DigitsVal(frac) ELSE DigitsVal(frac))

\* pd.to_numeric(series, errors="coerce")
ToNumeric(c) ==
    IF c.t = "str"
    THEN IF IsDecimal(c.s) THEN Num(DecimalVal(c.s)) ELSE NA
    ELSE c

\* Series.astype("Int64") of the float64 (or Int64) column to_numeric returns
AsInt64(c) ==
    CASE c.t = "num" -> IF c.n % 100 = 0 THEN Int64(c.n \div 100) ELSE Raise
      [] OTHER -> c

(***************************************************************************)
(* DataFrame operations used by the reconciler.                            *)
(***************************************************************************)
KeyCols == <<"contractid", "planid", "state", "county">>

fill_cols == <<"premium_partc", "premium_partd_basic", "premium_partd_supp",
               "premium_partd_total", "partd_deductible">>

Range(s) == {s[i] : i \in 1..Len(s)}

\* order of two cells of one column in sort_values (ascending, NA last)
CellLess(a, b) ==
    IF IsNA(a) THEN FALSE
    ELSE IF IsNA(b) THEN TRUE
    ELSE IF a.t = "str" /\ b.t = "str" THEN SeqLess(a.s, b.s)
    ELSE a.n < b.n

RECURSIVE KeyLessFrom(_, _, _)
KeyLessFrom(r1, r2, k) ==
    IF k > Len(KeyCols) THEN FALSE
    ELSE IF r1[KeyCols[k]] = r2[KeyCols[k]] THEN KeyLessFrom(r1, r2, k + 1)
    ELSE CellLess(r1[KeyCols[k]], r2[KeyCols[k]])

KeyLess(r1, r2) == KeyLessFrom(r1, r2, 1)

\* two rows fall into one key: pandas groups, deduplicates and joins NA with NA
SameKey(r1, r2) == \A k \in 1..Len(KeyCols) : r1[KeyCols[k]] = r2[KeyCols[k]]

Key(r) == [k \in 1..Len(KeyCols) |-> r[KeyCols[k]]]

HasNAKey(r) == \E k \in 1..Len(KeyCols) : IsNA(r[KeyCols[k]])

\* r goes behind every row that is not greater: rows with equal keys keep
\* their order (the multi-column sort is a stable lexsort)
InsertSorted(sorted, r) ==
    LET before == {i \in 1..Len(sorted) : ~KeyLess(r, sorted[i])}
        n == Cardinality(before)
    IN SubSeq(sorted, 1, n) \o <<r>> \o SubSeq(sorted, n + 1, Len(sorted))

\* df.sort_values(['contractid', 'planid', 'state', 'county'])
RECURSIVE SortValues(_)
SortValues(df) ==
    IF df = <<>> THEN <<>>
    ELSE InsertSorted(SortValues(SubSeq(df, 1, Len(df) - 1)), df[Len(df)])

\* one cell of df.groupby(KeyCols)[col].ffill(): the groupby drops the rows
\* with an NA key (dropna=True), whose result is NA; in a group the nearest
\* earlier non-NA value of the column fills an NA
FFillCell(df, i, col) ==
    IF HasNAKey(df[i]) THEN NA
    ELSE LET prior == {j \in 1..i : SameKey(df[j], df[i]) /\ ~IsNA(df[j][col])}
         IN IF prior = {} THEN NA
            ELSE df[CHOOSE j \in prior : \A k \in prior : k <= j][col]

\* df[cols] = df.groupby(KeyCols)[cols].ffill()
GroupFFill(df, cols) ==
    [i \in 1..Len(df) |->
        [f \in DOMAIN df[i] |->
            IF f \in Range(cols) THEN FFillCell(df, i, f) ELSE df[i][f]]]

\* as if keep='last' had been written
DropDuplicatesKeepLast(df) ==
    LET kept == {i \in 1..Len(df) :
                    \A j \in (i + 1)..Len(df) : ~SameKey(df[j], df[i])}
        Pick[i \in 0..Len(df)] ==
            IF i = 0 THEN <<>>
            ELSE IF i \in kept THEN Append(Pick[i - 1], df[i]) ELSE Pick[i - 1]
    IN Pick[Len(df)]

\* df.drop_duplicates(subset=KeyCols, keep='first')
DropDuplicates(df) ==
    LET kept == {i \in 1..Len(df) : \A j \in 1..(i - 1) : ~SameKey(df[j], df[i])}
        Pick[i \in 0..Len(df)] ==
            IF i = 0 THEN <<>>
            ELSE IF i \in kept THEN Append(Pick[i - 1], df[i]) ELSE Pick[i - 1]
    IN Pick[Len(df)]

RECURSIVE Flatten(_)
Flatten(ss) == IF ss = <<>> THEN <<>> ELSE Head(ss) \o Flatten(Tail(ss))

\* a row of the joined table: the key, the left table's premium, the right
\* table's five columns
JoinRow(k, l, r) ==
    [contractid |-> k.contractid, planid |-> k.planid,
     state |-> k.state, county |-> k.county,
     premium |-> l.premium,
     premium_partc |-> r.premium_partc,
     premium_partd_basic |-> r.premium_partd_basic,
     premium_partd_supp |-> r.premium_partd_supp,
     premium_partd_total |-> r.premium_partd_total,
     partd_deductible |-> r.partd_deductible]

NoLeft == [premium |-> NA]

NoRight == [premium_partc |-> NA, premium_partd_basic |-> NA,
            premium_partd_supp |-> NA, premium_partd_total |-> NA,
            partd_deductible |-> NA]

\* as if how='left' had been written
MergeLeftOnly(left, right) ==
    LET Matches(l) == SelectSeq(right, LAMBDA r : SameKey(l, r))
        OfLeft(l) ==
            IF Matches(l) = <<>> THEN <<JoinRow(l, l, NoRight)>>
            ELSE [j \in 1..Len(Matches(l)) |-> JoinRow(l, l, Matches(l)[j])]
    IN SortValues(Flatten([i \in 1..Len(left) |-> OfLeft(left[i])]))

\* left.merge(right, on=KeyCols, how='outer'): every pair of rows with one
\* key, the rows of either side that have no partner, keys in sorted order
MergeOuter(left, right) ==
    LET Matches(l) == SelectSeq(right, LAMBDA r : SameKey(l, r))
        OfLeft(l) ==
            IF Matches(l) = <<>> THEN <<JoinRow(l, l, NoRight)>>
            ELSE [j \in 1..Len(Matches(l)) |-> JoinRow(l, l, Matches(l)[j])]
        rightOnly == SelectSeq(right,
                        LAMBDA r : \A i \in 1..Len(left) : ~SameKey(left[i], r))
    IN SortValues(Flatten([i \in 1..Len(left) |-> OfLeft(left[i])])
                  \o [j \in 1..Len(rightOnly) |->
                        JoinRow(rightOnly[j], NoLeft, rightOnly[j])])

(***************************************************************************)
(* mapd_clean_merge(ma_data, mapd_data, y)                                 *)
(***************************************************************************)
\* .astype("string").str.replace(r"[\$,]", "", regex=True).str.strip(), then
\* pd.to_numeric(..., errors="coerce")
CleanPremium(c) == ToNumeric(StrStrip(StrReplaceCurrency(AsString(c))))

\* pd.to_numeric(df["planid"], errors="coerce").astype("Int64")
CleanPlanid(c) == AsInt64(ToNumeric(c))

\* the copy of the five columns of ma_data, its keys normalised and its
\* premium coerced
TidyMa(ma) ==
    [i \in 1..Len(ma) |->
        [contractid |-> StrStrip(StrUpper(AsString(ma[i].contractid))),
         state |-> StrStrip(AsString(ma[i].state)),
         county |-> StrStrip(AsString(ma[i].county)),
         planid |-> CleanPlanid(ma[i].planid),
         premium |-> CleanPremium(ma[i].premium)]]

\* the loop over fill_cols assigns the coerced columns to the table the
\* caller passed
CleanFillCols(mapd) ==
    [i \in 1..Len(mapd) |->
        [f \in DOMAIN mapd[i] |->
            IF f \in Range(fill_cols) THEN CleanPremium(mapd[i][f])
            ELSE mapd[i][f]]]

\* the copy of the nine columns of mapd_data, its planid coerced
TidyMapd(mapd) ==
    [i \in 1..Len(mapd) |->
        [contractid |-> mapd[i].contractid,
         planid |-> CleanPlanid(mapd[i].planid),
         state |-> mapd[i].state,
         county |-> mapd[i].county,
         premium_partc |-> mapd[i].premium_partc,
         premium_partd_basic |-> mapd[i].premium_partd_basic,
         premium_partd_supp |-> mapd[i].premium_partd_supp,
         premium_partd_total |-> mapd[i].premium_partd_total,
         partd_deductible |-> mapd[i].partd_deductible]]

\* astype("Int64") raises on a column that holds a float with a fraction
Raises(df) == \E i \in 1..Len(df) : df[i].planid = Raise

\* plan_premiums['year'] = y
StampYear(df, yr) ==
    [i \in 1..Len(df) |->
        [f \in DOMAIN df[i] \cup {"year"} |-> IF f = "year" THEN yr ELSE df[i][f]]]

NoLocals == [ma_tidy |-> <<>>, ma_sorted |-> <<>>, ma_filled |-> <<>>,
             ma_dedup |-> <<>>, mapd_tidy |-> <<>>, mapd_sorted |-> <<>>,
             mapd_filled |-> <<>>, mapd_dedup |-> <<>>]

\* The whole function: what it returns (out), whether it raised, what it
\* leaves in the caller's mapd_data, and its local tables.
MapdCleanMerge(ma, mapd, yr) ==
    LET ma_tidy == TidyMa(ma)
        ma_sorted == SortValues(ma_tidy)
        mapd_cleaned == CleanFillCols(mapd)
        ma_filled == GroupFFill(ma_sorted, <<"premium">>)
        ma_dedup == DropDuplicates(ma_filled)
        mapd_tidy == TidyMapd(mapd_cleaned)
        mapd_sorted == SortValues(mapd_tidy)
        mapd_filled == GroupFFill(mapd_sorted, fill_cols)
        mapd_dedup == DropDuplicates(mapd_filled)
    IN IF Raises(ma_tidy)
       THEN [raised |-> TRUE, mapd_data |-> mapd, locals |-> NoLocals,
             out |-> <<>>]
       ELSE IF Raises(mapd_tidy)
       THEN [raised |-> TRUE, mapd_data |-> mapd_cleaned, locals |-> NoLocals,
             out |-> <<>>]
       ELSE [raised |-> FALSE, mapd_data |-> mapd_cleaned,
             locals |-> [ma_tidy |-> ma_tidy, ma_sorted |-> ma_sorted,
                         ma_filled |-> ma_filled, ma_dedup |-> ma_dedup,
                         mapd_tidy |-> mapd_tidy, mapd_sorted |-> mapd_sorted,
                         mapd_filled |-> mapd_filled, mapd_dedup |-> mapd_dedup],
             out |-> StampYear(MergeOuter(ma_dedup, mapd_dedup), yr)]

(***************************************************************************)
(* The tables a caller may pass.                                           *)
(***************************************************************************)
H1 == Str(<<"H", "1">>)
h1 == Str(<<"h", "1">>)
h1sp == Str(<<" ", "h", "1", " ">>)
FL == Str(<<"F", "L">>)
FLsp == Str(<<"F", "L", " ">>)
LEE == Str(<<"L", "E", "E">>)
Star == Str(<<"*">>)
Txt(ch) == Str(<<ch>>)
Dollars1234_50 == Str(<<"$", "1", ",", "2", "3", "4", ".", "5", "0">>)
Dollars10 == Str(<<"$", "1", "0">>)

MaRows ==
    [contractid : {H1}, planid : {Txt("1"), Txt("x")},
     state : {FL}, county : {LEE},
     premium : {Star, Dollars1234_50, Txt("2")}]
    \cup {[contractid |-> h1sp, planid |-> Txt("1"), state |-> FL,
           county |-> LEE, premium |-> Dollars10],
          [contractid |-> h1, planid |-> Txt("2"), state |-> FLsp,
           county |-> LEE, premium |-> NA],
          [contractid |-> H1, planid |-> Str(<<"1", ".", "5">>), state |-> FL,
           county |-> LEE, premium |-> Dollars10]}

Premiums(a, b, c, d, e) ==
    [premium_partc |-> a, premium_partd_basic |-> b, premium_partd_supp |-> c,
     premium_partd_total |-> d, partd_deductible |-> e]

MapdPremiums ==
    {Premiums(Dollars1234_50, Dollars10, Txt("5"), Txt("7"), Txt("0")),
     Premiums(Star, Txt("3"), Star, Txt("x"), NA),
     Premiums(Txt("2"), Star, Txt("4"), Star, Str(<<>>))}

MapdRow(cid, pid, st, p) ==
    [contractid |-> cid, planid |-> pid, state |-> st, county |-> LEE,
     premium_partc |-> p.premium_partc,
     premium_partd_basic |-> p.premium_partd_basic,
     premium_partd_supp |-> p.premium_partd_supp,
     premium_partd_total |-> p.premium_partd_total,
     partd_deductible |-> p.partd_deductible]

MapdRows ==
    {MapdRow(cid, pid, FL, p) :
        cid \in {H1}, pid \in {Txt("1"), Txt("x")}, p \in MapdPremiums}
    \cup {MapdRow(h1sp, Txt("1"), FL,
                  Premiums(Dollars10, Txt("1"), NA, Txt("1"), NA)),
          MapdRow(h1, Txt("2"), FLsp, Premiums(NA, Dollars10, NA, NA, NA)),
          MapdRow(H1, Str(<<"1", ".", "5">>), FL,
                  Premiums(Dollars10, NA, NA, NA, NA))}

TablesOf(rows, n) == UNION {[1..k -> rows] : k \in 0..n}

Years == {2015}

Months == {<<"0", "7">>, <<"1", "2">>}

(***************************************************************************)
(* The reconciler's caller.                                                *)
(***************************************************************************)
InitMerge ==
    /\ pc = "start"
    /\ ma_data \in TablesOf(MaRows, MaxRows)
    /\ mapd_data \in TablesOf(MapdRows, MaxRows - Len(ma_data))
    /\ locals = NoLocals
    /\ plan_premiums = <<>>
    /\ again = <<>>
    /\ contract_csv = <<>> /\ enroll_csv = <<>> /\ merged = <<>>
    /\ sa_csv = <<>> /\ service_area = <<>>
    /\ m = <<>>
    /\ y \in Years

\* plan_premiums = mapd_clean_merge(ma_data, mapd_data, y)
mapd_clean_merge ==
    /\ pc = "start"
    /\ LET call == MapdCleanMerge(ma_data, mapd_data, y) IN
          /\ pc' = IF call.raised THEN "raised" ELSE "merged"
          /\ mapd_data' = call.mapd_data
          /\ locals' = call.locals
          /\ plan_premiums' = call.out
    /\ UNCHANGED <<ma_data, again, loadVars, saVars, m, y>>

\* again = mapd_clean_merge(plan_premiums, plan_premiums, y)
mapd_clean_merge_again ==
    /\ pc = "merged"
    /\ LET call == MapdCleanMerge(plan_premiums, plan_premiums, y) IN
          /\ pc' = IF call.raised THEN "raised" ELSE "remerged"
          /\ plan_premiums' = call.mapd_data
          /\ again' = call.out
    /\ UNCHANGED <<ma_data, mapd_data, locals, loadVars, saVars, m, y>>

NextMerge == mapd_clean_merge \/ mapd_clean_merge_again

SpecMerge == InitMerge /\ [][NextMerge]_vars

(***************************************************************************)
(* Properties of the reconciler.                                           *)
(***************************************************************************)
Returned == pc \in {"merged", "remerged"}

Keys(df) == {Key(df[i]) : i \in 1..Len(df)}

RowsOf(df, k) == {i \in 1..Len(df) : Key(df[i]) = k}

\* the first row of df with key k
FirstOf(df, k) == df[CHOOSE i \in RowsOf(df, k) : \A j \in RowsOf(df, k) : i <= j]

RightCells(r) == [c \in Range(fill_cols) |-> r[c]]

\* C1: the join keeps every key of the two cleaned tables in exactly one
\* row: a key of the Part-C table alone has the five Part-D-table fields
\* null, a key of the Part-C/Part-D table alone has premium null, a key of
\* both has the premium of the one and the five fields of the other.
C1_OuterJoin ==
    Returned =>
        LET L == locals.ma_dedup
            R == locals.mapd_dedup
            T == plan_premiums
        IN /\ Keys(T) = Keys(L) \cup Keys(R)
           /\ \A k \in Keys(T) :
                 /\ Cardinality(RowsOf(T, k)) = 1
                 /\ LET row == FirstOf(T, k) IN
                       /\ row.premium =
                             IF k \in Keys(L) THEN FirstOf(L, k).premium ELSE NA
                       /\ RightCells(row) =
                             IF k \in Keys(R) THEN RightCells(FirstOf(R, k))
                             ELSE RightCells(NoRight)

\* a key of both tables whose combined row has values of both, beside a key
\* of the Part-C table alone
C1_Witness ==
    /\ pc = "merged"
    /\ \E k \in Keys(locals.ma_dedup) \cap Keys(locals.mapd_dedup) :
          /\ ~IsNA(FirstOf(plan_premiums, k).premium)
          /\ ~IsNA(FirstOf(plan_premiums, k).premium_partd_basic)
    /\ \E k \in Keys(locals.ma_dedup) : k \notin Keys(locals.mapd_dedup)

FirstWins(filled, dedup) ==
    /\ Keys(dedup) = Keys(filled)
    /\ \A k \in Keys(filled) :
          /\ Cardinality(RowsOf(dedup, k)) = 1
          /\ FirstOf(dedup, k) = FirstOf(filled, k)

IsSorted(df) == \A i, j \in 1..Len(df) : i < j => ~KeyLess(df[j], df[i])

\* C7: each table is sorted by its key, and of the rows that share a key only
\* the first is kept, so each cleaned table and the joined table hold a key
\* at most once.
C7_Dedup ==
    Returned =>
        /\ IsSorted(locals.ma_filled) /\ IsSorted(locals.mapd_filled)
        /\ FirstWins(locals.ma_filled, locals.ma_dedup)
        /\ FirstWins(locals.mapd_filled, locals.mapd_dedup)
        /\ \A k \in Keys(plan_premiums) :
              Cardinality(RowsOf(plan_premiums, k)) = 1

\* two rows of one key that differ in a premium, in one of the two tables,
\* and a row in the other table
C7_Witness ==
    /\ pc = "merged"
    /\ \/ \E i, j \in 1..Len(locals.ma_filled) :
             /\ i < j
             /\ SameKey(locals.ma_filled[i], locals.ma_filled[j])
             /\ locals.ma_filled[i] # locals.ma_filled[j]
             /\ Len(locals.mapd_dedup) = 1
       \/ \E i, j \in 1..Len(locals.mapd_filled) :
             /\ i < j
             /\ SameKey(locals.mapd_filled[i], locals.mapd_filled[j])
             /\ locals.mapd_filled[i] # locals.mapd_filled[j]
             /\ Len(locals.ma_dedup) = 1

\* the key the specification gives a row: contractid in upper case and
\* trimmed, planid a nullable integer; state and county compared trimmed
NormalKey(r) ==
    <<StrStrip(StrUpper(AsString(r.contractid))), CleanPlanid(r.planid),
      StrStrip(r.state), StrStrip(r.county)>>

\* C2: contractid is upper-cased and trimmed in both tables, so a Part-C row
\* and a Part-D row that differ only in the case or the surrounding blanks
\* of contractid are combined into one output row.
C2_OneKeyAcrossTables ==
    pc = "merged" =>
        \A i \in 1..Len(ma_data), j \in 1..Len(mapd_data) :
            (/\ NormalKey(ma_data[i]) = NormalKey(mapd_data[j])
             /\ ma_data[i].state = mapd_data[j].state
             /\ StrStrip(ma_data[i].state) = ma_data[i].state)
            => Cardinality({r \in 1..Len(plan_premiums) :
                               NormalKey(plan_premiums[r]) = NormalKey(ma_data[i])})
                  = 1

\* C4: the call changes neither of the tables the caller holds.
C4_NoMutation == [][ma_data' = ma_data /\ mapd_data' = mapd_data]_vars

\* C5: no row is rejected: the normalised key of every row of either input
\* table is a key of the output.
C5_EveryKeyKept ==
    pc = "merged" =>
        \A r \in Range(ma_data) \cup Range(mapd_data) :
            \E i \in 1..Len(plan_premiums) :
                <<plan_premiums[i].contractid, plan_premiums[i].planid,
                  StrStrip(plan_premiums[i].state),
                  StrStrip(plan_premiums[i].county)>> = NormalKey(r)

\* the nearest row of i's group before i with a value in col, 0 if none
Nearest(df, i, col) ==
    LET prior == {j \in 1..(i - 1) : SameKey(df[j], df[i]) /\ ~IsNA(df[j][col])}
    IN IF prior = {} THEN 0 ELSE CHOOSE j \in prior : \A k \in prior : k <= j

FilledAsStated(sorted, filled, cols) ==
    /\ Len(filled) = Len(sorted)
    /\ \A i \in 1..Len(sorted) :
          /\ SameKey(filled[i], sorted[i])
          /\ \A c \in Range(cols) :
                filled[i][c] =
                    IF ~IsNA(sorted[i][c]) THEN sorted[i][c]
                    ELSE IF Nearest(sorted, i, c) = 0 THEN NA
                    ELSE sorted[Nearest(sorted, i, c)][c]

\* C6: in every row of both sorted tables, rows with a null planid included,
\* a value is left as it is and a null takes the nearest earlier value of
\* its group, or stays null when the group has none before it.
C6_ForwardFill ==
    Returned =>
        /\ FilledAsStated(locals.ma_sorted, locals.ma_filled, <<"premium">>)
        /\ FilledAsStated(locals.mapd_sorted, locals.mapd_filled, fill_cols)

\* C8: run on its own output as both tables, the reconciler returns that
\* output: as many rows, the same value in every field.
C8_Idempotent == pc = "remerged" => again = plan_premiums

\* C10: forward-fill does not show in the result: every output row has the
\* coerced values of the first sorted row of its key in each table.
C10_FirstRowValues ==
    Returned =>
        \A i \in 1..Len(plan_premiums) :
            LET row == plan_premiums[i]
                k == Key(row)
            IN /\ k \in Keys(locals.ma_sorted)
                    => row.premium = FirstOf(locals.ma_sorted, k).premium
               /\ k \in Keys(locals.mapd_sorted)
                    => RightCells(row) = RightCells(FirstOf(locals.mapd_sorted, k))

(***************************************************************************)
(* The readers: pd.read_csv(path, skiprows=1, names=..., dtype=...).       *)
(* A file is its lines, the header first; a line is a record of the text  *)
(* of its cells.                                                           *)
(***************************************************************************)
\* read_csv's own missing-value tokens, as far as the model's files use them
DefaultNA == {<<>>, <<"N", "A">>}

\* a cell of a column of dtype str
ReadStr(cell, na_values) ==
    IF cell \in DefaultNA \cup na_values THEN NA ELSE Str(cell)

\* a cell of a column of dtype float: text that is no number raises
ReadFloat(cell, na_values) ==
    IF cell \in DefaultNA \cup na_values THEN NA
    ELSE IF IsDecimal(cell) THEN Num(DecimalVal(cell))
    ELSE Raise

\* skiprows=1
DataLines(csv) == SubSeq(csv, 2, Len(csv))

ReadRaises(df) ==
    \E i \in 1..Len(df) : \E f \in DOMAIN df[i] : df[i][f] = Raise

\* read_contract(path); plan_name stands for the ten descriptive str columns
read_contract(csv) ==
    [i \in 1..Len(DataLines(csv)) |->
        [contractid |-> ReadStr(DataLines(csv)[i].contractid, {}),
         planid |-> ReadFloat(DataLines(csv)[i].planid, {}),
         plan_name |-> ReadStr(DataLines(csv)[i].plan_name, {})]]

\* read_enroll(path), na_values="*"
read_enroll(csv) ==
    [i \in 1..Len(DataLines(csv)) |->
        [contractid |-> ReadStr(DataLines(csv)[i].contractid, {<<"*">>}),
         planid |-> ReadFloat(DataLines(csv)[i].planid, {<<"*">>}),
         ssa |-> ReadFloat(DataLines(csv)[i].ssa, {<<"*">>}),
         fips |-> ReadFloat(DataLines(csv)[i].fips, {<<"*">>}),
         state |-> ReadStr(DataLines(csv)[i].state, {<<"*">>}),
         county |-> ReadStr(DataLines(csv)[i].county, {<<"*">>}),
         enrollment |-> ReadFloat(DataLines(csv)[i].enrollment, {<<"*">>})]]

\* as if the tokens were matched in any case
MapPartialAnyCase(c) ==
    IF StrUpper(c) = Str(<<"T", "R", "U", "E">>) THEN Bool(TRUE)
    ELSE IF StrUpper(c) = Str(<<"F", "A", "L", "S", "E">>) THEN Bool(FALSE)
    ELSE IF c.t = "bool" THEN c
    ELSE NA

\* df['partial'].map({'TRUE': True, 'FALSE': False, True: True, False: False})
MapPartial(c) ==
    IF c = Str(<<"T", "R", "U", "E">>) THEN Bool(TRUE)
    ELSE IF c = Str(<<"F", "A", "L", "S", "E">>) THEN Bool(FALSE)
    ELSE IF c.t = "bool" THEN c
    ELSE NA

\* read_service_area(path), na_values="*"; org_name stands for the str
\* columns beside partial, ssa for the two float columns
read_service_area(csv) ==
    [i \in 1..Len(DataLines(csv)) |->
        [contractid |-> ReadStr(DataLines(csv)[i].contractid, {<<"*">>}),
         org_name |-> ReadStr(DataLines(csv)[i].org_name, {<<"*">>}),
         partial |-> MapPartial(ReadStr(DataLines(csv)[i].partial, {<<"*">>})),
         ssa |-> ReadFloat(DataLines(csv)[i].ssa, {<<"*">>})]]

\* int(m); the months of the model are digits
IntOf(month) == DigitsVal(month)

\* df['month'] = int(m); df['year'] = y
StampMonthYear(df, month, yr) ==
    [i \in 1..Len(df) |->
        [f \in DOMAIN df[i] \cup {"month", "year"} |->
            IF f = "month" THEN IntOf(month)
            ELSE IF f = "year" THEN yr
            ELSE df[i][f]]]

(***************************************************************************)
(* load_month(m, y)                                                        *)
(***************************************************************************)
SamePlan(a, b) == a.contractid = b.contractid /\ a.planid = b.planid

\* .drop_duplicates(subset=['contractid', 'planid'], keep='first')
DropDuplicatePlans(df) ==
    LET kept == {i \in 1..Len(df) : \A j \in 1..(i - 1) : ~SamePlan(df[j], df[i])}
        Pick[i \in 0..Len(df)] ==
            IF i = 0 THEN <<>>
            ELSE IF i \in kept THEN Append(Pick[i - 1], df[i]) ELSE Pick[i - 1]
    IN Pick[Len(df)]

NoEnroll == [ssa |-> NA, fips |-> NA, state |-> NA, county |-> NA,
             enrollment |-> NA]

PlanRow(c, e) ==
    [contractid |-> c.contractid, planid |-> c.planid, plan_name |-> c.plan_name,
     ssa |-> e.ssa, fips |-> e.fips, state |-> e.state, county |-> e.county,
     enrollment |-> e.enrollment]

\* as if how='inner' had been written
MergeInner(contract_info, enroll_info) ==
    LET Matches(c) == SelectSeq(enroll_info, LAMBDA e : SamePlan(c, e))
        OfContract(c) == [j \in 1..Len(Matches(c)) |-> PlanRow(c, Matches(c)[j])]
    IN Flatten([i \in 1..Len(contract_info) |-> OfContract(contract_info[i])])

\* contract_info.merge(enroll_info, on=['contractid', 'planid'], how='left'):
\* the contract rows in their order, each with every enrollment row of its
\* plan, or once with no enrollment
MergeLeft(contract_info, enroll_info) ==
    LET Matches(c) == SelectSeq(enroll_info, LAMBDA e : SamePlan(c, e))
        OfContract(c) ==
            IF Matches(c) = <<>> THEN <<PlanRow(c, NoEnroll)>>
            ELSE [j \in 1..Len(Matches(c)) |-> PlanRow(c, Matches(c)[j])]
    IN Flatten([i \in 1..Len(contract_info) |-> OfContract(contract_info[i])])

\* The whole function: what it returns, or that a reader raised.
LoadMonth(c_csv, e_csv, month, yr) ==
    LET contract_read == read_contract(c_csv)
        contract_info == DropDuplicatePlans(contract_read)
        enroll_info == read_enroll(e_csv)
    IN IF ReadRaises(contract_read) \/ ReadRaises(enroll_info)
       THEN [raised |-> TRUE, out |-> <<>>]
       ELSE [raised |-> FALSE,
             out |-> StampMonthYear(MergeLeft(contract_info, enroll_info),
                                    month, yr)]

(***************************************************************************)
(* The files a caller may point the loaders at.                            *)
(***************************************************************************)
ContractHeader == [contractid |-> <<"x">>, planid |-> <<"x">>, plan_name |-> <<"x">>]

ContractLines ==
    [contractid : {<<"H", "1">>}, planid : {<<"1">>, <<"2">>},
     plan_name : {<<"a">>, <<"u">>}]
    \cup {[contractid |-> <<"H", "1">>, planid |-> <<>>, plan_name |-> <<"a">>],
          [contractid |-> <<"H", "1">>, planid |-> <<"*">>, plan_name |-> <<"a">>]}

EnrollHeader ==
    [contractid |-> <<"x">>, planid |-> <<"x">>, ssa |-> <<"x">>,
     fips |-> <<"x">>, state |-> <<"x">>, county |-> <<"x">>,
     enrollment |-> <<"x">>]

EnrollLine(pid, cty, n) ==
    [contractid |-> <<"H", "1">>, planid |-> pid, ssa |-> <<"1", "0">>,
     fips |-> <<"1", "2">>, state |-> <<"F", "L">>, county |-> cty,
     enrollment |-> n]

EnrollLines ==
    {EnrollLine(pid, g[1], g[2]) :
        pid \in {<<"1">>, <<"2">>},
        g \in {<<(<<"L", "E", "E">>), (<<"1", "2">>)>>, <<(<<"Y">>), (<<"*">>)>>}}
    \cup {EnrollLine(<<"*">>, <<"Y">>, <<"1", "2">>),
          EnrollLine(<<"1">>, <<"Y">>, <<"x">>)}

InitLoad ==
    /\ pc = "start"
    /\ \E lines \in TablesOf(ContractLines, MaxLines) :
          contract_csv = <<ContractHeader>> \o lines
    /\ \E lines \in TablesOf(EnrollLines, MaxLines - (Len(contract_csv) - 1)) :
          enroll_csv = <<EnrollHeader>> \o lines
    /\ merged = <<>>
    /\ ma_data = <<>> /\ mapd_data = <<>> /\ locals = NoLocals
    /\ plan_premiums = <<>> /\ again = <<>>
    /\ sa_csv = <<>> /\ service_area = <<>>
    /\ m = <<"0", "7">>
    /\ y \in Years

\* merged = load_month(m, y)
load_month ==
    /\ pc = "start"
    /\ LET call == LoadMonth(contract_csv, enroll_csv, m, y) IN
          /\ pc' = IF call.raised THEN "raised" ELSE "loaded"
          /\ merged' = call.out
    /\ UNCHANGED <<contract_csv, enroll_csv, mergeVars, saVars, m, y>>

NextLoad == load_month

SpecLoad == InitLoad /\ [][NextLoad]_vars

(***************************************************************************)
(* load_month_sa(m, y)                                                     *)
(***************************************************************************)
LoadMonthSa(csv, month, yr) ==
    LET df == read_service_area(csv)
    IN IF ReadRaises(df) THEN [raised |-> TRUE, out |-> <<>>]
       ELSE [raised |-> FALSE, out |-> StampMonthYear(df, month, yr)]

SaHeader == [contractid |-> <<"x">>, org_name |-> <<"x">>, partial |-> <<"x">>,
             ssa |-> <<"*">>]

PartialTokens == {<<"T", "R", "U", "E">>, <<"F", "A", "L", "S", "E">>,
                  <<"t", "r", "u", "e">>, <<"Y", "e", "s">>, <<"*">>, <<>>}

SaLines ==
    [contractid : {<<"H", "1">>}, org_name : {<<"a">>}, partial : PartialTokens,
     ssa : {<<"1", "0">>}]
    \cup {[contractid |-> <<"H", "1">>, org_name |-> <<"*">>,
           partial |-> <<"T", "R", "U", "E">>, ssa |-> <<"*">>],
          [contractid |-> <<"H", "1">>, org_name |-> <<"a">>,
           partial |-> <<"F", "A", "L", "S", "E">>, ssa |-> <<"x">>]}

InitSa ==
    /\ pc = "start"
    /\ \E lines \in TablesOf(SaLines, MaxSaLines) : sa_csv = <<SaHeader>> \o lines
    /\ service_area = <<>>
    /\ ma_data = <<>> /\ mapd_data = <<>> /\ locals = NoLocals
    /\ plan_premiums = <<>> /\ again = <<>>
    /\ contract_csv = <<>> /\ enroll_csv = <<>> /\ merged = <<>>
    /\ m \in Months
    /\ y \in Years

\* service_area = load_month_sa(m, y)
load_month_sa ==
    /\ pc = "start"
    /\ LET call == LoadMonthSa(sa_csv, m, y) IN
          /\ pc' = IF call.raised THEN "raised" ELSE "sa_loaded"
          /\ service_area' = call.out
    /\ UNCHANGED <<sa_csv, mergeVars, loadVars, m, y>>

NextSa == load_month_sa

SpecSa == InitSa /\ [][NextSa]_vars

(***************************************************************************)
(* Properties of the loaders.                                              *)
(***************************************************************************)
ContractInfo == DropDuplicatePlans(read_contract(contract_csv))

EnrollInfo == read_enroll(enroll_csv)

MatchCount(c) ==
    Cardinality({j \in 1..Len(EnrollInfo) : SamePlan(c, EnrollInfo[j])})

RowsOfPlan(c) == {i \in 1..Len(merged) : SamePlan(merged[i], c)}

RECURSIVE JoinedRows(_)
JoinedRows(n) ==
    IF n = 0 THEN 0
    ELSE JoinedRows(n - 1)
           + (IF MatchCount(ContractInfo[n]) = 0 THEN 1
              ELSE MatchCount(ContractInfo[n]))

\* C3 as stated: load_month returns as many rows as there are contract rows
\* after deduplication on (contractid, planid).
C3_RowCountEqualsContracts == pc = "loaded" => Len(merged) = Len(ContractInfo)

\* C3 as amended: every deduplicated contract row is in the output once for
\* each enrollment row of its plan, and once with null geography and
\* enrollment when its plan has none; the output has that many rows in all.
C3_LeftJoin ==
    pc = "loaded" =>
        /\ Len(merged) = JoinedRows(Len(ContractInfo))
        /\ Len(merged) >= Len(ContractInfo)
        /\ \A i \in 1..Len(ContractInfo) :
              LET c == ContractInfo[i] IN
                 /\ \A r \in RowsOfPlan(c) : merged[r].plan_name = c.plan_name
                 /\ Cardinality(RowsOfPlan(c)) =
                       IF MatchCount(c) = 0 THEN 1 ELSE MatchCount(c)
                 /\ MatchCount(c) = 0 =>
                       \A r \in RowsOfPlan(c) :
                           \A f \in DOMAIN NoEnroll : IsNA(merged[r][f])

\* a plan with two enrollment rows beside a plan with none
C3_Witness ==
    /\ pc = "loaded"
    /\ \E i \in 1..Len(ContractInfo) : MatchCount(ContractInfo[i]) = 2
    /\ \E i \in 1..Len(ContractInfo) : MatchCount(ContractInfo[i]) = 0

\* the text of the partial cell of data line i
PartialText(i) == sa_csv[i + 1].partial

\* the text of a float cell that read_csv takes: a number or a missing value
FloatText(cell) == cell \in DefaultNA \cup {<<"*">>} \/ IsDecimal(cell)

\* C9: "TRUE" becomes true, "FALSE" becomes false, any other token becomes
\* null; no token of the partial column raises, and every line keeps its row.
C9_PartialMapped ==
    /\ pc = "sa_loaded" =>
          /\ Len(service_area) = Len(sa_csv) - 1
          /\ \A i \in 1..Len(service_area) :
                service_area[i].partial =
                    IF PartialText(i) = <<"T", "R", "U", "E">> THEN Bool(TRUE)
                    ELSE IF PartialText(i) = <<"F", "A", "L", "S", "E">>
                    THEN Bool(FALSE)
                    ELSE NA
    /\ pc = "raised" => \E i \in 2..Len(sa_csv) : ~FloatText(sa_csv[i].ssa)

\* a "TRUE" line and a "true" line read into one table
C9_Witness ==
    /\ pc = "sa_loaded"
    /\ \E i, j \in 1..Len(service_area) :
          /\ PartialText(i) = <<"T", "R", "U", "E">>
          /\ PartialText(j) = <<"t", "r", "u", "e">>
          /\ service_area[i].partial = Bool(TRUE)
          /\ IsNA(service_area[j].partial)

====
